---------------------------- MODULE Spec2Model ----------------------------
(***************************************************************************)
(* Model of the browser side of the gallery site: assets/gallery.js        *)
(* (renderHome, renderProject, the tab switcher) and assets/lightbox.js    *)
(* (createLightbox).                                                       *)
(*                                                                         *)
(* JavaScript values are tagged records: Null is undefined/null/a missing  *)
(* property, Str(s) a string whose characters are the elements of the      *)
(* sequence s, Num(n) a number, Arr(a) an array.  Indices are 0-based in   *)
(* the program and kept 0-based in idx; sequences are 1-based.             *)
(*                                                                         *)
(* The DOM is kept as far as the script writes it: the children of the     *)
(* mount elements, the title, the tab buttons and the classes "active",    *)
(* "hidden" and "open".  The mount elements, #projectTitle, #infoList,     *)
(* #gallerySections, #tabs and #overviewBlock are separate elements of the *)
(* static page.  #projectSubtitle, #overviewSection and inline styles are  *)
(* written by renderProject but read by nothing and are left out.  ev      *)
(* records the event handled last, so that a handler that changes nothing  *)
(* is still a step.                                                        *)
(***************************************************************************)
EXTENDS Integers, Sequences, FiniteSets, TLC

VARIABLES
    basePath,        \* BASE_PATH, computed once from window.location
    hasGrid,         \* the page holds #projectsGrid
    hasMount,        \* the page holds #projectMount
    slugAttr,        \* body[data-project-slug]
    tabParam,        \* the tab parameter of window.location.search
    pc,              \* position of the DOMContentLoaded handler
    served,          \* the manifest on the server
    homeResp,        \* outcome of renderHome's fetch
    homeData,        \* data of renderHome: the parsed manifest
    projResp,        \* outcome of renderProject's fetch
    projData,        \* data of renderProject: the parsed manifest
    grid,            \* children of #projectsGrid
    mount,           \* children of #projectMount
    title,           \* #projectTitle: its text and its status badge
    infoList,        \* children of #infoList
    gallerySections, \* children of #gallerySections
    tabs,            \* the buttons of #tabs, by data-tab
    active,          \* data-tab of the buttons carrying class "active"
    overviewHidden,  \* #overviewBlock carries class "hidden"
    hiddenSections,  \* data-phase of the gallery sections carrying "hidden"
    lbCreated,       \* createLightbox has run (its listeners are attached)
    items,           \* lightbox: items
    idx,             \* lightbox: idx
    overlayOpen,     \* #lightbox carries class "open"
    imgSrc,          \* #lightboxImg.src
    imgAlt,          \* #lightboxImg.alt
    btnDisplay,      \* style.display of #lbPrev and #lbNext
    bodyOverflow,    \* document.body.style.overflow
    ev               \* the event handled last

pageIn  == <<basePath, hasGrid, hasMount, slugAttr, tabParam>>
loadSt  == <<pc, served, homeResp, homeData, projResp, projData>>
homeDom == <<grid>>
projDom == <<mount, title, infoList, gallerySections, tabs, lbCreated>>
tabSt   == <<active, overviewHidden, hiddenSections>>
lbSt    == <<items, idx, overlayOpen, imgSrc, imgAlt, btnDisplay, bodyOverflow>>
vars    == <<pageIn, loadSt, homeDom, projDom, tabSt, lbSt, ev>>

---------------------------------------------------------------------------
(* Bounds of the model *)

MaxStrLen   == 2   \* longest metadata string
MaxProjects == 3   \* most projects in a home-page manifest
MaxImgs     == 2   \* most images in one phase
MaxItems    == 2   \* longest list handed to the lightbox directly

---------------------------------------------------------------------------
(* JavaScript values *)

Null    == [t |-> "null"]
Str(s)  == [t |-> "str", s |-> s]
Num(n)  == [t |-> "num", n |-> n]
Arr(a)  == [t |-> "arr", a |-> a]

Chars == {" ", "x", "X"}

RECURSIVE SeqsUpTo(_, _)
SeqsUpTo(S, n) ==
    IF n = 0 THEN {<<>>}
    ELSE LET shorter == SeqsUpTo(S, n - 1)
         IN  shorter \cup {Append(s, c) : s \in {q \in shorter : Len(q) = n - 1}, c \in S}

\* ToBoolean: undefined, null, "" and 0 are falsy
Truthy(v) ==
    CASE v.t = "null" -> FALSE
      [] v.t = "str"  -> Len(v.s) > 0
      [] v.t = "num"  -> v.n # 0
      [] OTHER        -> TRUE

\* a || b
OrElse(a, b) == IF Truthy(a) THEN a ELSE b

DigitChar(n) == <<"0", "1", "2", "3", "4", "5", "6", "7", "8", "9">>[n + 1]

\* (v ?? "").toString() for the values of the model (numbers are 0..9)
ToStringJS(v) ==
    CASE v.t = "null" -> <<>>
      [] v.t = "str"  -> v.s
      [] v.t = "num"  -> <<DigitChar(v.n)>>

RECURSIVE TrimStart(_)
TrimStart(s) == IF s # <<>> /\ Head(s) = " " THEN TrimStart(Tail(s)) ELSE s

RECURSIVE TrimEnd(_)
TrimEnd(s) ==
    IF s # <<>> /\ s[Len(s)] = " " THEN TrimEnd(SubSeq(s, 1, Len(s) - 1)) ELSE s

Trim(s) == TrimEnd(TrimStart(s))

LowerChar(c) == IF c = "X" THEN "x" ELSE c

ToLowerCase(s) == [i \in 1..Len(s) |-> LowerChar(s[i])]

\* s.replace(/\s+/g, "-"): every maximal run of spaces becomes one "-"
RECURSIVE DashRuns(_)
DashRuns(s) ==
    IF s = <<>> THEN <<>>
    ELSE IF Head(s) = " "
         THEN <<"-">> \o DashRuns(TrimStart(s))
         ELSE <<Head(s)>> \o DashRuns(Tail(s))

safeText(v) == Trim(ToStringJS(v))

statusClass(status) ==
    LET s == Trim(ToLowerCase(ToStringJS(OrElse(status, Str(<<>>)))))
    IN  IF s = <<>> THEN <<>> ELSE DashRuns(s)

---------------------------------------------------------------------------
(* URLs.  A URL is external (http://, https://), root-absolute or         *)
(* relative; base is the prefix a root-absolute URL already carries.      *)

EmptyUrl == [kind |-> "empty", base |-> "", path |-> <<>>]
Url(kind, path) == [kind |-> kind, base |-> "", path |-> path]

withBaseAt(bp, u) ==
    IF u.kind = "empty" THEN EmptyUrl
    ELSE IF u.kind = "external" THEN u
    ELSE IF bp # "" /\ u.kind = "root" /\ u.base = bp THEN u
    ELSE [kind |-> "root", base |-> bp, path |-> u.path]

withBase(u) == withBaseAt(basePath, u)


---------------------------------------------------------------------------
(* Manifest data: projects, phases, images, videos *)

Word(w) == [t |-> "word", w |-> w]

\* ToBoolean extended to the words (slugs, query parameter values)
TruthyW(v) == IF v.t = "word" THEN v.w # "" ELSE Truthy(v)

OverviewFields ==
    {"location", "date", "projectType", "scope", "client", "status",
     "buildingArea", "notes", "summary"}

PhaseKeys == <<"renderings", "before", "during", "after">>

PhaseObj(images, videos) == [t |-> "obj", images |-> images, videos |-> videos]

Phases(r, b, d, a) ==
    [t |-> "obj", renderings |-> r, before |-> b, during |-> d, after |-> a]

\* p.phases?.[key]
PhaseOf(p, key) == IF p.phases.t = "null" THEN Null ELSE p.phases[key]

\* hasPhaseContent without the length checks
hasPhaseContent_AnyObject(phase) == Truthy(phase)

hasPhaseContent(phase) ==
    IF ~Truthy(phase) THEN FALSE
    ELSE LET imgs == OrElse(phase.images, Arr(<<>>))
             vids == OrElse(phase.videos, Arr(<<>>))
         IN  Len(imgs.a) > 0 \/ Len(vids.a) > 0

hasOverviewContent(p) ==
    \/ Truthy(p.location)
    \/ Truthy(p.date)
    \/ Truthy(p.projectType)
    \/ Truthy(p.scope)
    \/ Truthy(p.client)
    \/ Truthy(p.status)
    \/ Truthy(p.buildingArea)
    \/ Truthy(p.notes)
    \/ Truthy(p.summary)

---------------------------------------------------------------------------
(* Home page: cards and their order *)

\* Rank of a character in the collation of the sort keys (digit strings)
CharRank(c) ==
    CASE c = "0" -> 0 [] c = "1" -> 1 [] c = "2" -> 2 [] c = "3" -> 3
      [] c = "4" -> 4 [] c = "5" -> 5 [] c = "6" -> 6 [] c = "7" -> 7
      [] c = "8" -> 8 [] c = "9" -> 9

\* a.localeCompare(b) on digit strings: -1, 0 or 1
RECURSIVE localeCompare(_, _)
localeCompare(a, b) ==
    IF a = <<>> /\ b = <<>> THEN 0
    ELSE IF a = <<>> THEN -1
    ELSE IF b = <<>> THEN 1
    ELSE IF CharRank(Head(a)) < CharRank(Head(b)) THEN -1
    ELSE IF CharRank(Head(a)) > CharRank(Head(b)) THEN 1
    ELSE localeCompare(Tail(a), Tail(b))

\* the comparator with a and b exchanged: oldest first
sortCompare_Ascending(a, b) ==
    localeCompare(OrElse(a.sortKey, Str(<<>>)).s, OrElse(b.sortKey, Str(<<>>)).s)

\* (a, b) => (b.sortKey || "").localeCompare(a.sortKey || "")
sortCompare(a, b) ==
    localeCompare(OrElse(b.sortKey, Str(<<>>)).s, OrElse(a.sortKey, Str(<<>>)).s)

\* Array.prototype.sort is stable: x goes behind every element it does not
\* strictly precede
RECURSIVE InsertSorted(_, _)
InsertSorted(x, s) ==
    IF s = <<>> THEN <<x>>
    ELSE IF sortCompare(x, Head(s)) < 0 THEN <<x>> \o s
    ELSE <<Head(s)>> \o InsertSorted(x, Tail(s))

RECURSIVE SortProjectsFrom(_, _)
SortProjectsFrom(s, n) ==
    IF n = 0 THEN <<>> ELSE InsertSorted(s[n], SortProjectsFrom(s, n - 1))

\* (data.projects || []).slice().sort(...)
SortedProjects(d) ==
    LET ps == OrElse(d.projects, Arr(<<>>)).a IN SortProjectsFrom(ps, Len(ps))

\* what sorting leaves in data.projects: .slice() sorts a copy
ProjectsAfterSort(d) == d.projects

buildProjectCard(p) ==
    [t          |-> "card",
     slug       |-> p.slug,
     statusCls  |-> statusClass(p.status),
     coverHref  |-> withBase(Url("relative", <<"projects", p.slug.w, "?tab=all">>)),
     titleHref  |-> withBase(Url("relative", <<"projects", p.slug.w, "?tab=overview">>)),
     detailHref |-> withBase(Url("relative", <<"projects", p.slug.w, "?tab=all">>)),
     imgSrc     |-> withBase(p.coverThumb),
     alt        |-> OrElse(p.title, p.slug),
     flag       |-> IF Truthy(p.status) THEN p.status ELSE Null,
     titleText  |-> OrElse(p.title, p.slug)]

FailedToLoad == [t |-> "message", text |-> "Failed to load"]
NoProjectsYet == [t |-> "message", text |-> "no projects yet"]
NotFound(slug) == [t |-> "message", text |-> "not found", slug |-> slug]
NoMediaYet == [t |-> "message", text |-> "no media yet"]

HomeGrid(d) ==
    LET projects == SortedProjects(d)
    IN  IF projects = <<>> THEN <<NoProjectsYet>>
        ELSE [i \in 1..Len(projects) |-> buildProjectCard(projects[i])]


---------------------------------------------------------------------------
(* Project page: overview rows, gallery sections, tabs *)

buildInfoItem(k, v) == [key |-> k, val |-> v]

InfoPlaceholder == buildInfoItem("Info", <<"No details provided yet.">>)

\* the field list of renderProject, in its order
InfoFields(p) ==
    << <<"Location", safeText(p.location)>>,
       <<"Date", safeText(p.date)>>,
       <<"Project Type", safeText(p.projectType)>>,
       <<"Scope", safeText(p.scope)>>,
       <<"Summary", safeText(p.summary)>>,
       <<"Notes", safeText(p.notes)>>,
       <<"Client", safeText(p.client)>>,
       <<"Status", safeText(p.status)>>,
       <<"Building Area", safeText(p.buildingArea)>> >>

RECURSIVE InfoRowsFrom(_, _)
InfoRowsFrom(fields, n) ==
    IF n = 0 THEN <<>>
    ELSE LET rest == InfoRowsFrom(fields, n - 1)
         IN  IF fields[n][2] = <<>> THEN rest
             ELSE Append(rest, buildInfoItem(fields[n][1], fields[n][2]))

InfoRows(p) ==
    LET rows == InfoRowsFrom(InfoFields(p), Len(InfoFields(p)))
    IN  IF rows = <<>> THEN <<InfoPlaceholder>> ELSE rows

VideoNode(v) ==
    IF v.kind = "embed" /\ v.url.kind # "empty" THEN [el |-> "iframe", src |-> v.url]
    ELSE IF v.kind = "file" /\ v.url.kind # "empty" THEN [el |-> "video", src |-> withBase(v.url)]
    ELSE [el |-> "none", src |-> EmptyUrl]

FixImage(x) ==
    [x EXCEPT !.srcThumb = withBase(x.srcThumb), !.srcLarge = withBase(x.srcLarge)]

Thumb(img) == [src |-> img.srcThumb, alt |-> OrElse(img.alt, Str(<<>>))]

\* renderPhase giving up when there is no image, whatever the videos
renderPhase_ImagesOnly(phaseKey, phaseTitle, phase) ==
    IF ~Truthy(phase) THEN Null
    ELSE LET images == OrElse(phase.images, Arr(<<>>)).a
             videos == OrElse(phase.videos, Arr(<<>>)).a
             fixedImages == [i \in 1..Len(images) |-> FixImage(images[i])]
         IN  IF Len(images) = 0 THEN Null
             ELSE [t           |-> "section",
                   phase       |-> phaseKey,
                   h2          |-> phaseTitle,
                   videos      |-> [i \in 1..Len(videos) |-> VideoNode(videos[i])],
                   thumbs      |-> [i \in 1..Len(fixedImages) |-> Thumb(fixedImages[i])],
                   fixedImages |-> fixedImages]

\* renderPhase: Null, or the section element with the list its thumbnails
\* hand to the lightbox
renderPhase(phaseKey, phaseTitle, phase) ==
    IF ~Truthy(phase) THEN Null
    ELSE LET images == OrElse(phase.images, Arr(<<>>)).a
             videos == OrElse(phase.videos, Arr(<<>>)).a
             fixedImages == [i \in 1..Len(images) |-> FixImage(images[i])]
         IN  IF Len(images) = 0 /\ Len(videos) = 0 THEN Null
             ELSE [t           |-> "section",
                   phase       |-> phaseKey,
                   h2          |-> phaseTitle,
                   videos      |-> [i \in 1..Len(videos) |-> VideoNode(videos[i])],
                   thumbs      |-> [i \in 1..Len(fixedImages) |-> Thumb(fixedImages[i])],
                   fixedImages |-> fixedImages]

RECURSIVE FilterBoolean(_)
FilterBoolean(s) ==
    IF s = <<>> THEN <<>>
    ELSE IF Head(s).t = "null" THEN FilterBoolean(Tail(s))
    ELSE <<Head(s)>> \o FilterBoolean(Tail(s))

GallerySections(p) ==
    LET sections ==
            FilterBoolean(<< renderPhase("renderings", "Renderings", PhaseOf(p, "renderings")),
                             renderPhase("before", "Before", PhaseOf(p, "before")),
                             renderPhase("during", "During", PhaseOf(p, "during")),
                             renderPhase("after", "After", PhaseOf(p, "after")) >>)
    IN  IF sections = <<>> THEN <<NoMediaYet>> ELSE sections

\* the data-tab keys of tabList, in the order they are pushed
tabList(p) ==
    LET anyMedia == \/ hasPhaseContent(PhaseOf(p, "renderings"))
                    \/ hasPhaseContent(PhaseOf(p, "before"))
                    \/ hasPhaseContent(PhaseOf(p, "during"))
                    \/ hasPhaseContent(PhaseOf(p, "after"))
    IN  (IF hasOverviewContent(p) THEN <<"overview">> ELSE <<>>)
        \o (IF anyMedia THEN <<"all">> ELSE <<>>)
        \o (IF hasPhaseContent(PhaseOf(p, "renderings")) THEN <<"renderings">> ELSE <<>>)
        \o (IF hasPhaseContent(PhaseOf(p, "before")) THEN <<"before">> ELSE <<>>)
        \o (IF hasPhaseContent(PhaseOf(p, "during")) THEN <<"during">> ELSE <<>>)
        \o (IF hasPhaseContent(PhaseOf(p, "after")) THEN <<"after">> ELSE <<>>)

Range(s) == {s[i] : i \in DOMAIN s}

\* data-phase of the .gallery-section elements under #gallerySections
SectionPhases(gs) == {gs[i].phase : i \in {j \in DOMAIN gs : gs[j].t = "section"}}

setActive(tab, tabKeys) == {k \in Range(tabKeys) : k = tab}

showMediaAll(on, gs) == IF on THEN {} ELSE SectionPhases(gs)

showOnlyPhase(phaseKey, gs) == {ph \in SectionPhases(gs) : ph # phaseKey}

\* switchTab on a page whose tab buttons are tabKeys and whose sections are gs
switchTab(tab, tabKeys, gs) ==
    IF tab = "overview"
    THEN [active |-> setActive(tab, tabKeys), overviewHidden |-> FALSE,
          hiddenSections |-> showMediaAll(FALSE, gs) \cup SectionPhases(gs)]
    ELSE IF tab = "all"
    THEN [active |-> setActive(tab, tabKeys), overviewHidden |-> TRUE,
          hiddenSections |-> showMediaAll(TRUE, gs)]
    ELSE [active |-> setActive(tab, tabKeys), overviewHidden |-> TRUE,
          hiddenSections |-> showOnlyPhase(tab, gs)]

\* String.prototype.toLowerCase on the parameter values of the model
LowerWord(w) ==
    CASE w = "Overview" -> "overview"
      [] w = "Media"    -> "media"
      [] w = "ALL"      -> "all"
      [] w = "Before"   -> "before"
      [] OTHER          -> w

\* defaultTab comparing the parameter as written
defaultTab_CaseSensitive(param, tabKeys) ==
    LET want      == (IF TruthyW(param) THEN param ELSE Word("")).w
        available == Range(tabKeys)
        first     == IF tabKeys # <<>> THEN tabKeys[1] ELSE "overview"
        chosen    == IF want = "overview" /\ "overview" \in available THEN "overview"
                     ELSE IF (want = "all" \/ want = "media") /\ "all" \in available THEN "all"
                     ELSE IF want \in available THEN want
                     ELSE first
    IN  IF chosen \notin available /\ "all" \in available THEN "all" ELSE chosen

\* the tab renderProject opens first
defaultTab(param, tabKeys) ==
    LET want      == LowerWord((IF TruthyW(param) THEN param ELSE Word("")).w)
        available == Range(tabKeys)
        first     == IF tabKeys # <<>> THEN tabKeys[1] ELSE "overview"
        chosen    == IF want = "overview" /\ "overview" \in available THEN "overview"
                     ELSE IF (want = "all" \/ want = "media") /\ "all" \in available THEN "all"
                     ELSE IF want \in available THEN want
                     ELSE first
    IN  IF chosen \notin available /\ "all" \in available THEN "all" ELSE chosen

\* (data.projects || []).find((x) => x.slug === slug): 0 when there is none
RECURSIVE FindFrom(_, _, _)
FindFrom(ps, slug, i) ==
    IF i > Len(ps) THEN 0
    ELSE IF ps[i].slug = slug THEN i
    ELSE FindFrom(ps, slug, i + 1)

FindProject(d, slug) == FindFrom(OrElse(d.projects, Arr(<<>>)).a, slug, 1)

StaticTitle == [text |-> Word("static"), badge |-> Null]

TitleOf(p, slug) ==
    [text  |-> OrElse(p.title, slug),
     badge |-> IF Truthy(p.status)
               THEN [t |-> "badge", cls |-> statusClass(p.status), text |-> p.status]
               ELSE Null]


---------------------------------------------------------------------------
(* Lightbox (createLightbox) *)

Max2(a, b) == IF a > b THEN a ELSE b
Min2(a, b) == IF a < b THEN a ELSE b

\* Math.max(0, Math.min(startIndex, items.length-1))
clampIndex(startIndex, n) == Max2(0, Min2(startIndex, n - 1))

prevIndex(i, n) == (i - 1 + n) % n

\* next() stopping at the last image
nextIndex_NoWrap(i, n) == Min2(i + 1, n - 1)

nextIndex(i, n) == (i + 1) % n

\* render(): what it leaves in the image and the two buttons
lbRender(its, i, cur) ==
    IF Len(its) = 0 THEN cur
    ELSE [imgSrc     |-> its[i + 1].srcLarge,
          imgAlt     |-> OrElse(its[i + 1].alt, Str(<<>>)),
          btnDisplay |-> IF Len(its) > 1 THEN "block" ELSE "none"]

lbShown == [imgSrc |-> imgSrc, imgAlt |-> imgAlt, btnDisplay |-> btnDisplay]

lbOpen(newItems, startIndex) ==
    LET its == OrElse(newItems, Arr(<<>>)).a
        i   == clampIndex(startIndex, Len(its))
        r   == lbRender(its, i, lbShown)
    IN  /\ items' = its
        /\ idx' = i
        /\ imgSrc' = r.imgSrc
        /\ imgAlt' = r.imgAlt
        /\ btnDisplay' = r.btnDisplay
        /\ overlayOpen' = TRUE
        /\ bodyOverflow' = "hidden"

lbClose ==
    /\ overlayOpen' = FALSE
    /\ bodyOverflow' = ""
    /\ UNCHANGED <<items, idx, imgSrc, imgAlt, btnDisplay>>

lbStep(i) ==
    LET r == lbRender(items, i, lbShown)
    IN  /\ idx' = i
        /\ imgSrc' = r.imgSrc
        /\ imgAlt' = r.imgAlt
        /\ btnDisplay' = r.btnDisplay
        /\ UNCHANGED <<items, overlayOpen, bodyOverflow>>

lbPrev == IF Len(items) = 0 THEN UNCHANGED lbSt ELSE lbStep(prevIndex(idx, Len(items)))

lbNext == IF Len(items) = 0 THEN UNCHANGED lbSt ELSE lbStep(nextIndex(idx, Len(items)))

\* the keydown listener without its test for the open overlay
lbKeyDown_NoOpenCheck(key) ==
    IF key = "Escape" THEN lbClose
    ELSE IF key = "ArrowLeft" THEN lbPrev
    ELSE IF key = "ArrowRight" THEN lbNext
    ELSE UNCHANGED lbSt

\* the document's keydown listener
lbKeyDown(key) ==
    IF ~overlayOpen THEN UNCHANGED lbSt
    ELSE IF key = "Escape" THEN lbClose
    ELSE IF key = "ArrowLeft" THEN lbPrev
    ELSE IF key = "ArrowRight" THEN lbNext
    ELSE UNCHANGED lbSt

Keys == {"Escape", "ArrowLeft", "ArrowRight", "Enter"}


---------------------------------------------------------------------------
(* The inputs: page loads (a page, its URL, the manifest on the server)    *)

SlugName(i) == <<"p1", "p2", "p3", "p4", "p5", "p6">>[i]

MetaNone == [f \in OverviewFields |-> Null]

MetaOne(f, v) == [MetaNone EXCEPT ![f] = v]

\* status is a label; the other fields may also hold numbers (a year, an area)
FieldValues(f) ==
    {Str(s) : s \in SeqsUpTo(Chars, MaxStrLen)}
        \cup (IF f = "status" THEN {} ELSE {Num(0), Num(7)})

InProgress == Str(<<"X", "x", " ", " ", "X", "x">>)

MetaVariety ==
    {MetaNone, [f \in OverviewFields |-> Str(<<"x">>)]}
        \cup UNION {{MetaOne(f, v) : v \in FieldValues(f)} : f \in OverviewFields}

MetaSmall == {MetaNone, MetaOne("status", InProgress)}

Project(slug, ttl, sortKey, cover, phases, meta) ==
    [slug |-> Word(slug), title |-> ttl, sortKey |-> sortKey,
     coverThumb |-> cover, phases |-> phases,
     location |-> meta["location"], date |-> meta["date"],
     projectType |-> meta["projectType"], scope |-> meta["scope"],
     client |-> meta["client"], status |-> meta["status"],
     buildingArea |-> meta["buildingArea"], notes |-> meta["notes"],
     summary |-> meta["summary"]]

UrlKind(k) == IF k = 1 THEN "relative" ELSE IF k = 2 THEN "root" ELSE "external"

Image(ph, k) ==
    [srcThumb |-> Url(UrlKind(k), <<ph, "thumb", DigitChar(k)>>),
     srcLarge |-> Url(UrlKind(k), <<ph, "large", DigitChar(k)>>),
     alt      |-> IF k = 1 THEN Null ELSE Str(<<"x">>)]

Images(ph, n) == Arr([k \in 1..n |-> Image(ph, k)])

Videos(ph) ==
    Arr(<< [kind |-> "embed", url |-> Url("external", <<ph, "embed">>)],
           [kind |-> "file", url |-> Url("relative", <<ph, "file">>)],
           [kind |-> "file", url |-> EmptyUrl] >>)

\* a phase: missing, without its arrays, with empty arrays, images, videos
PhaseShapes(ph) ==
    {Null, PhaseObj(Null, Null), PhaseObj(Arr(<<>>), Arr(<<>>)),
     PhaseObj(Images(ph, 1), Null), PhaseObj(Arr(<<>>), Videos(ph))}

PhaseVariety ==
    {Null} \cup {Phases(r, b, d, a) : r \in PhaseShapes("renderings"),
                                      b \in PhaseShapes("before"),
                                      d \in PhaseShapes("during"),
                                      a \in PhaseShapes("after")}

PhaseSmall == {Null, Phases(Null, Null, Null, PhaseObj(Images("after", 1), Null))}

ImagePhases ==
    {Phases(Null, Null, PhaseObj(Images("during", n), v), a) :
        n \in 1..MaxImgs, v \in {Null, Videos("during")},
        a \in {Null, PhaseObj(Images("after", 1), Arr(<<>>))}}

Decoy == Project("p2", Str(<<"x">>), Null, EmptyUrl, Null, MetaOne("status", Str(<<"x">>)))

ManifestFor(p) == [projects |-> Arr(<<Decoy, p>>)]

Detail(phases, meta) ==
    ManifestFor(Project("p1", IF phases = Null THEN Null ELSE Str(<<"X">>), Str(<<"2">>),
                        Url("relative", <<"cover">>), phases, meta))

SortKeys == {Null, Str(<<>>), Str(<<"1">>), Str(<<"1", "0">>), Str(<<"2">>), Str(<<"2", "1">>)}

HomeProject(i, key) ==
    Project(SlugName(i),
            IF i = 1 THEN Null ELSE Str(<<"x">>),
            key,
            IF i = 2 THEN EmptyUrl ELSE Url("root", <<"cover", SlugName(i)>>),
            Null,
            IF i = 2 THEN MetaNone ELSE MetaOne("status", InProgress))

HomeManifests ==
    {[projects |-> Null]} \cup
    {[projects |-> Arr([i \in 1..Len(ks) |-> HomeProject(i, ks[i])])] :
        ks \in SeqsUpTo(SortKeys, MaxProjects)}

TabParams ==
    {Null, Word("Overview"), Word("all"), Word("Media"), Word("renderings"),
     Word("Before"), Word("during"), Word("after"), Word("bogus")}

PageLoad(bp, g, m, slug, tab, manifest) ==
    [basePath |-> bp, hasGrid |-> g, hasMount |-> m, slugAttr |-> slug,
     tabParam |-> tab, manifest |-> manifest]

HomeLoads ==
    {PageLoad(bp, TRUE, FALSE, Null, Null, mf) : bp \in {"", "/repo"}, mf \in HomeManifests}

TabLoads ==
    {PageLoad("", FALSE, TRUE, Word("p1"), tab, Detail(ph, meta)) :
        tab \in TabParams, ph \in PhaseVariety, meta \in MetaSmall}

MetaLoads ==
    {PageLoad("", FALSE, TRUE, Word("p1"), tab, Detail(ph, meta)) :
        tab \in {Null, Word("Overview")}, ph \in PhaseSmall, meta \in MetaVariety}

ImageLoads ==
    {PageLoad(bp, FALSE, TRUE, Word("p1"), tab, Detail(ph, MetaNone)) :
        bp \in {"", "/repo"}, tab \in {Null, Word("during")}, ph \in ImagePhases}

MissingLoads ==
    {PageLoad("", FALSE, TRUE, slug, tab, mf) :
        slug \in {Null, Word("zz")}, tab \in {Null, Word("all")},
        mf \in {[projects |-> Null], [projects |-> Arr(<<>>)]}
                 \cup {Detail(ph, meta) : ph \in PhaseSmall, meta \in MetaSmall}}

OtherLoads == {PageLoad("", FALSE, FALSE, Null, Null, [projects |-> Null])}

\* a page holding both mount elements: the manifest is fetched twice
BothLoads ==
    {PageLoad("", TRUE, TRUE, slug, Null, Detail(ph, MetaNone)) :
        slug \in {Word("p1"), Word("zz")}, ph \in PhaseSmall}

PageLoads == HomeLoads \cup TabLoads \cup MetaLoads \cup ImageLoads
                 \cup MissingLoads \cup OtherLoads \cup BothLoads

\* the lists handed to lightbox.open directly
LightboxImages == {FixImage(Image("api", 1)), FixImage(Image("api", 3))}

LightboxLists == {Null} \cup {Arr(s) : s \in SeqsUpTo(LightboxImages, MaxItems)}

---------------------------------------------------------------------------
(* The state after the static page has loaded, before any script ran *)

InitFrom(loads) ==
    \E ld \in loads :
        /\ basePath = ld.basePath
        /\ hasGrid = ld.hasGrid
        /\ hasMount = ld.hasMount
        /\ slugAttr = ld.slugAttr
        /\ tabParam = ld.tabParam
        /\ served = ld.manifest
        /\ pc = "start"
        /\ homeResp = "none"
        /\ homeData = Null
        /\ projResp = "none"
        /\ projData = Null
        /\ grid = <<>>
        /\ mount = <<>>
        /\ title = StaticTitle
        /\ infoList = <<>>
        /\ gallerySections = <<>>
        /\ tabs = <<>>
        /\ active = {}
        /\ overviewHidden = FALSE
        /\ hiddenSections = {}
        /\ lbCreated = FALSE
        /\ items = <<>>
        /\ idx = 0
        /\ overlayOpen = FALSE
        /\ imgSrc = EmptyUrl
        /\ imgAlt = Str(<<>>)
        /\ btnDisplay = "static"
        /\ bodyOverflow = ""
        /\ ev = "load"

Init == InitFrom(PageLoads)

InitLightbox == InitFrom({ld \in ImageLoads : ld.tabParam = Null})


---------------------------------------------------------------------------
(* The DOMContentLoaded handler: await renderHome(); await renderProject() *)

\* where the handler goes once renderHome has returned
AfterHome == IF hasMount THEN "projFetch" ELSE "done"

\* the handler starts; each render function returns at once on a page that
\* lacks its mount element, and otherwise awaits its fetch
DOMContentLoaded ==
    /\ pc = "start"
    /\ pc' = IF hasGrid THEN "homeFetch" ELSE AfterHome
    /\ ev' = "DOMContentLoaded"
    /\ UNCHANGED <<pageIn, served, homeResp, homeData, projResp, projData,
                   homeDom, projDom, tabSt, lbSt>>

\* renderHome: the response is not OK
HomeFetchNotOk ==
    /\ pc = "homeFetch"
    /\ homeResp' = "notok"
    /\ grid' = <<FailedToLoad>>
    /\ pc' = AfterHome
    /\ ev' = "renderHome"
    /\ UNCHANGED <<pageIn, served, homeData, projResp, projData, projDom, tabSt, lbSt>>

\* renderHome: fetch rejects, or res.json() rejects; nothing catches it, so
\* the handler's promise rejects and renderProject is never called
HomeFetchThrows ==
    /\ pc = "homeFetch"
    /\ \E kind \in {"reject", "badjson"} : homeResp' = kind
    /\ pc' = "rejected"
    /\ ev' = "renderHome"
    /\ UNCHANGED <<pageIn, served, homeData, projResp, projData,
                   homeDom, projDom, tabSt, lbSt>>

\* renderHome: the manifest arrives
HomeFetchOk ==
    /\ pc = "homeFetch"
    /\ homeResp' = "ok"
    /\ homeData' = [served EXCEPT !.projects = ProjectsAfterSort(served)]
    /\ grid' = HomeGrid(served)
    /\ pc' = AfterHome
    /\ ev' = "renderHome"
    /\ UNCHANGED <<pageIn, served, projResp, projData, projDom, tabSt, lbSt>>

\* renderProject: the response is not OK
ProjFetchNotOk ==
    /\ pc = "projFetch"
    /\ projResp' = "notok"
    /\ mount' = <<FailedToLoad>>
    /\ pc' = "done"
    /\ ev' = "renderProject"
    /\ UNCHANGED <<pageIn, served, homeResp, homeData, projData, homeDom, title, infoList,
                   gallerySections, tabs, lbCreated, tabSt, lbSt>>

\* renderProject: fetch rejects, or res.json() rejects
ProjFetchThrows ==
    /\ pc = "projFetch"
    /\ \E kind \in {"reject", "badjson"} : projResp' = kind
    /\ pc' = "rejected"
    /\ ev' = "renderProject"
    /\ UNCHANGED <<pageIn, served, homeResp, homeData, projData,
                   homeDom, projDom, tabSt, lbSt>>

\* find falling back on the first project of the manifest
FoundProject_OrFirst(d) ==
    IF FindProject(d, slugAttr) = 0 /\ Len(OrElse(d.projects, Arr(<<>>)).a) > 0
    THEN 1
    ELSE FindProject(d, slugAttr)

\* the project the page is about: its position in data.projects, or 0
FoundProject(d) == FindProject(d, slugAttr)

\* renderProject from the title down, for project p
RenderFound(p) ==
    LET gs  == GallerySections(p)
        tl  == tabList(p)
        sw  == switchTab(defaultTab(tabParam, tl), tl, gs)
    IN  /\ title' = TitleOf(p, slugAttr)
        /\ infoList' = InfoRows(p)
        /\ lbCreated' = TRUE
        /\ gallerySections' = gs
        /\ tabs' = tl
        /\ active' = sw.active
        /\ overviewHidden' = sw.overviewHidden
        /\ hiddenSections' = sw.hiddenSections
        /\ UNCHANGED mount

\* renderProject: the manifest arrives
ProjFetchOk ==
    /\ pc = "projFetch"
    /\ projResp' = "ok"
    /\ projData' = served
    /\ LET i == FoundProject(served)
       IN  IF i = 0
           THEN /\ mount' = <<NotFound(slugAttr)>>
                /\ UNCHANGED <<title, infoList, gallerySections, tabs, lbCreated, tabSt>>
           ELSE RenderFound(served.projects.a[i])
    /\ pc' = "done"
    /\ ev' = "renderProject"
    /\ UNCHANGED <<pageIn, served, homeResp, homeData, homeDom, lbSt>>

---------------------------------------------------------------------------
(* Clicks on the rendered project page *)

\* renderProject ran to its end: the buttons, the title and the badge have
\* their listeners and the lightbox has its own
Rendered == lbCreated

DoSwitch(tab) ==
    LET sw == switchTab(tab, tabs, gallerySections)
    IN  /\ active' = sw.active
        /\ overviewHidden' = sw.overviewHidden
        /\ hiddenSections' = sw.hiddenSections

\* the listener without its test for an Overview tab
ToOverview_Unchecked == DoSwitch("overview")

\* the listener of the title and of the badge
ToOverview == IF "overview" \in Range(tabs) THEN DoSwitch("overview") ELSE UNCHANGED tabSt

TabClick ==
    /\ Rendered
    /\ \E k \in Range(tabs) : DoSwitch(k)
    /\ ev' = "tab"
    /\ UNCHANGED <<pageIn, loadSt, homeDom, projDom, lbSt>>

TitleClick ==
    /\ Rendered
    /\ ToOverview
    /\ ev' = "title"
    /\ UNCHANGED <<pageIn, loadSt, homeDom, projDom, lbSt>>

\* the badge stops the click from reaching the title
BadgeClick ==
    /\ Rendered
    /\ title.badge # Null
    /\ ToOverview
    /\ ev' = "badge"
    /\ UNCHANGED <<pageIn, loadSt, homeDom, projDom, lbSt>>

---------------------------------------------------------------------------
(* Lightbox events *)

\* a thumbnail of a rendered section: lb.open(fixedImages, i)
ThumbClick ==
    /\ Rendered
    /\ \E s \in {j \in DOMAIN gallerySections : gallerySections[j].t = "section"} :
         \E i \in 1..Len(gallerySections[s].thumbs) :
            lbOpen(Arr(gallerySections[s].fixedImages), i - 1)
    /\ ev' = "thumb"
    /\ UNCHANGED <<pageIn, loadSt, homeDom, projDom, tabSt>>

\* open(newItems, startIndex) called on the object createLightbox returns
OpenCall ==
    /\ Rendered
    /\ \E newItems \in LightboxLists, startIndex \in (0 - 1)..(MaxItems + 1) :
         lbOpen(newItems, startIndex)
    /\ ev' = "open"
    /\ UNCHANGED <<pageIn, loadSt, homeDom, projDom, tabSt>>

PrevClick ==
    /\ Rendered
    /\ lbPrev
    /\ ev' = "prev"
    /\ UNCHANGED <<pageIn, loadSt, homeDom, projDom, tabSt>>

NextClick ==
    /\ Rendered
    /\ lbNext
    /\ ev' = "next"
    /\ UNCHANGED <<pageIn, loadSt, homeDom, projDom, tabSt>>

\* #lbClose, the overlay itself, or close() on the returned object
CloseClick ==
    /\ Rendered
    /\ lbClose
    /\ ev' = "close"
    /\ UNCHANGED <<pageIn, loadSt, homeDom, projDom, tabSt>>

KeyDown ==
    /\ Rendered
    /\ \E key \in Keys :
         /\ lbKeyDown(key)
         /\ ev' = key
    /\ UNCHANGED <<pageIn, loadSt, homeDom, projDom, tabSt>>

---------------------------------------------------------------------------
(* Specifications *)

\* page loads and the tab switcher
Next ==
    \/ DOMContentLoaded
    \/ HomeFetchNotOk
    \/ HomeFetchThrows
    \/ HomeFetchOk
    \/ ProjFetchNotOk
    \/ ProjFetchThrows
    \/ ProjFetchOk
    \/ TabClick
    \/ TitleClick
    \/ BadgeClick

Spec == Init /\ [][Next]_vars

\* a rendered project page and its lightbox
NextLightbox ==
    \/ DOMContentLoaded
    \/ ProjFetchOk
    \/ ThumbClick
    \/ OpenCall
    \/ PrevClick
    \/ NextClick
    \/ CloseClick
    \/ KeyDown

SpecLightbox == InitLightbox /\ [][NextLightbox]_vars


---------------------------------------------------------------------------
(* Properties *)

\* the project a rendered project page shows
PageProject == projData.projects.a[FoundProject(projData)]

\* number of entries of p.phases[k][kind], 0 for whatever is missing
MediaCount(p, k, kind) ==
    IF p.phases = Null THEN 0
    ELSE IF p.phases[k] = Null THEN 0
    ELSE IF p.phases[k][kind] = Null THEN 0
    ELSE Len(p.phases[k][kind].a)

HasMedia(p, k) == MediaCount(p, k, "images") > 0 \/ MediaCount(p, k, "videos") > 0

MediaTabs == {"all", "renderings", "before", "during", "after"}

TabOrder == <<"overview", "all", "renderings", "before", "during", "after">>

\* the first tab of the fixed order among those the page offers
FirstAvailable ==
    TabOrder[CHOOSE i \in DOMAIN TabOrder :
                /\ TabOrder[i] \in Range(tabs)
                /\ \A j \in 1..(i - 1) : TabOrder[j] \notin Range(tabs)]

\* C1: on a list of n >= 1 images "next" (the button, or ArrowRight while the
\* overlay is open) takes index i to i+1 when i < n-1 and the last index to
\* 0, and the image shown is then the one at the new index (the first image
\* after the wrap).
C1_NextWraps ==
    [][ ((ev' = "next" \/ (ev' = "ArrowRight" /\ overlayOpen)) /\ Len(items) >= 1)
            => /\ idx' = (IF idx < Len(items) - 1 THEN idx + 1 ELSE 0)
               /\ items' = items
               /\ imgSrc' = items[idx' + 1].srcLarge ]_vars

\* "next" has just wrapped to the first of at least two images
C1_Witness ==
    /\ ev = "next"
    /\ overlayOpen
    /\ Len(items) >= 2
    /\ idx = 0
    /\ imgSrc = items[1].srcLarge

\* C2: a found project without any image or video in any of its four phases
\* gets no media tab: the tab bar is the Overview tab alone when one of the
\* metadata fields is set, and empty otherwise.
C2_NoMediaNoMediaTabs ==
    (Rendered /\ \A i \in DOMAIN PhaseKeys : ~HasMedia(PageProject, PhaseKeys[i]))
        => /\ Range(tabs) \cap MediaTabs = {}
           /\ tabs = (IF \E f \in OverviewFields : Truthy(PageProject[f])
                      THEN <<"overview">> ELSE <<>>)

\* a project whose phases are all present but empty, with a status
C2_Witness ==
    /\ Rendered
    /\ PageProject.phases # Null
    /\ \A i \in DOMAIN PhaseKeys :
          PageProject.phases[PhaseKeys[i]] = PhaseObj(Arr(<<>>), Arr(<<>>))
    /\ tabs = <<"overview">>

\* C3: a phase has a tab button iff it has a gallery section iff it holds an
\* image or a video; the All tab exists iff some section exists.
C3_TabIffSectionIffMedia ==
    Rendered =>
        /\ \A i \in DOMAIN PhaseKeys :
              LET k == PhaseKeys[i]
              IN  /\ (k \in Range(tabs)) <=> (k \in SectionPhases(gallerySections))
                  /\ (k \in SectionPhases(gallerySections)) <=> HasMedia(PageProject, k)
        /\ ("all" \in Range(tabs)) <=> (SectionPhases(gallerySections) # {})
        /\ Len(gallerySections) = Cardinality(SectionPhases(gallerySections))
               + (IF SectionPhases(gallerySections) = {} THEN 1 ELSE 0)

\* one phase with videos only, one with empty arrays, one missing
C3_Witness ==
    /\ Rendered
    /\ PageProject.phases # Null
    /\ MediaCount(PageProject, "before", "images") = 0
    /\ MediaCount(PageProject, "before", "videos") > 0
    /\ PageProject.phases["during"] = PhaseObj(Arr(<<>>), Arr(<<>>))
    /\ PageProject.phases["after"] = Null
    /\ "before" \in Range(tabs)
    /\ SectionPhases(gallerySections) = {"before"}

\* the spellings of the tab parameter that name tab k
Spellings(k) ==
    CASE k = "overview" -> {"overview", "Overview"}
      [] k = "all"      -> {"all", "ALL", "media", "Media"}
      [] k = "before"   -> {"before", "Before"}
      [] OTHER          -> {k}

\* C4: when renderProject finishes with at least one tab, the active tab is
\* the one the tab parameter names (whatever its case, media meaning all) if
\* the page offers it, and otherwise the first offered tab in the order
\* overview, all, renderings, before, during, after; it is always an offered
\* tab.
C4_InitialTab ==
    (ev = "renderProject" /\ Rendered /\ tabs # <<>>) =>
        /\ \A k \in Range(tabs) :
              (tabParam # Null /\ tabParam.w \in Spellings(k)) => active = {k}
        /\ (tabParam = Null \/ \A k \in Range(tabs) : tabParam.w \notin Spellings(k))
              => active = {FirstAvailable}
        /\ tabs[1] = FirstAvailable
        /\ Cardinality(active) = 1
        /\ active \subseteq Range(tabs)

\* ?tab=Media opens All although Overview comes first
C4_Witness ==
    /\ ev = "renderProject"
    /\ Rendered
    /\ tabParam = Word("Media")
    /\ Len(tabs) >= 2
    /\ tabs[1] = "overview"
    /\ active = {"all"}

\* C5: however the manifest fetch fails (response not OK, fetch rejected,
\* body not JSON), the render function ends with the error message in its
\* mount element, nothing else built and no failure left unhandled.
C5_FetchFailureShowsMessage ==
    LET Failed == {"notok", "reject", "badjson"}
    IN  /\ (homeResp \in Failed \/ projResp \in Failed) => pc # "rejected"
        /\ (homeResp \in Failed) => grid = <<FailedToLoad>>
        /\ (projResp \in Failed) =>
              (mount = <<FailedToLoad>> /\ tabs = <<>> /\ gallerySections = <<>>)

\* C6: when the manifest loads and holds no project with the page's slug,
\* renderProject leaves the not-found message in #projectMount and nothing
\* else: title, overview list, gallery sections, tab bar, tab state and
\* lightbox stay as the static page has them.
C6_MissingProject ==
    (projResp = "ok" /\ pc = "done"
        /\ (served.projects = Null
              \/ \A i \in DOMAIN served.projects.a : served.projects.a[i].slug # slugAttr))
        => /\ mount = <<NotFound(slugAttr)>>
           /\ title = StaticTitle
           /\ infoList = <<>>
           /\ gallerySections = <<>>
           /\ tabs = <<>>
           /\ active = {} /\ ~overviewHidden /\ hiddenSections = {}
           /\ ~lbCreated
           /\ ~overlayOpen /\ items = <<>>

\* a manifest with projects, none of them the page's
C6_Witness ==
    /\ pc = "done"
    /\ projResp = "ok"
    /\ slugAttr = Word("zz")
    /\ served.projects # Null
    /\ Len(served.projects.a) = 2
    /\ mount = <<NotFound(Word("zz"))>>

\* the sort key of a project as the home page orders it: "" when missing
KeyOf(p) == IF p.sortKey = Null THEN <<>> ELSE p.sortKey.s

\* position in the manifest of the project a card was built from
ManifestPos(card) ==
    CHOOSE i \in DOMAIN served.projects.a : served.projects.a[i].slug = card.slug

\* C7: after renderHome succeeds on a non-empty manifest the grid holds one
\* card per project, by non-increasing sort key (a missing key counting as
\* the empty string), equal keys in manifest order, and data.projects is in
\* the order the server sent.
C7_HomeOrder ==
    (homeResp = "ok" /\ served.projects # Null /\ Len(served.projects.a) > 0) =>
        LET ps == served.projects.a
        IN  /\ Len(grid) = Len(ps)
            /\ \A j \in DOMAIN grid : grid[j].t = "card"
            /\ \A i \in DOMAIN ps :
                  Cardinality({j \in DOMAIN grid : grid[j].slug = ps[i].slug}) = 1
            /\ \A j, k \in DOMAIN grid :
                  j < k =>
                     LET a == ps[ManifestPos(grid[j])]
                         b == ps[ManifestPos(grid[k])]
                     IN  /\ localeCompare(KeyOf(a), KeyOf(b)) >= 0
                         /\ KeyOf(a) = KeyOf(b) => ManifestPos(grid[j]) < ManifestPos(grid[k])
            /\ homeData.projects = served.projects

\* three projects: no key, then two with the same key
C7_Witness ==
    /\ homeResp = "ok"
    /\ served.projects # Null
    /\ Len(served.projects.a) = 3
    /\ served.projects.a[1].sortKey = Null
    /\ served.projects.a[2].sortKey = Str(<<"1", "0">>)
    /\ served.projects.a[3].sortKey = Str(<<"1", "0">>)
    /\ Len(grid) = 3
    /\ grid[1].slug = Word("p2") /\ grid[2].slug = Word("p3") /\ grid[3].slug = Word("p1")

\* the visible regions agree with the one active tab
TabsConsistent ==
    (Rendered /\ tabs # <<>>) =>
        /\ Cardinality(active) = 1
        /\ active \subseteq Range(tabs)
        /\ ("overview" \in active) =>
              (~overviewHidden /\ hiddenSections = SectionPhases(gallerySections))
        /\ ("all" \in active) => (overviewHidden /\ hiddenSections = {})
        /\ \A i \in DOMAIN PhaseKeys :
              (PhaseKeys[i] \in active) =>
                  /\ overviewHidden
                  /\ SectionPhases(gallerySections) \ hiddenSections = {PhaseKeys[i]}

\* C8: once renderProject has finished with at least one tab, tab, title and
\* badge clicks keep exactly one tab active with the regions to match
\* (overview: overview block shown, all sections hidden; all: block hidden,
\* all sections shown; a phase: block hidden, its section alone shown), and
\* a title or badge click without an Overview tab changes nothing.
C8_TabInvariant ==
    /\ []TabsConsistent
    /\ [][ ((ev' = "title" \/ ev' = "badge") /\ "overview" \notin Range(tabs))
              => UNCHANGED <<tabSt, projDom, homeDom, lbSt>> ]_vars

\* a title click on a page without Overview tab, the During tab staying open
C8_Witness ==
    /\ Rendered
    /\ ev = "title"
    /\ "overview" \notin Range(tabs)
    /\ active = {"during"}
    /\ overviewHidden
    /\ SectionPhases(gallerySections) \ hiddenSections = {"during"}
    /\ hiddenSections # {}

\* C9: the Overview tab is offered exactly when #infoList shows a real row,
\* never over the placeholder alone.
C9_OverviewIffRealRow ==
    Rendered => (("overview" \in Range(tabs)) <=> (infoList # <<InfoPlaceholder>>))

\* the lightbox shows items[idx] of the list it was opened on, and the page
\* scrolls iff the overlay is closed
LightboxShowsItem ==
    /\ 0 <= idx
    /\ idx < Len(items)
    /\ imgSrc = items[idx + 1].srcLarge

\* C10 (as stated): whatever list open was given, while the overlay is open
\* 0 <= idx < items.length and the image shown is items[idx].srcLarge;
\* scrolling is locked iff the overlay is open.
C10_AnyList ==
    /\ overlayOpen => LightboxShowsItem
    /\ (bodyOverflow = "hidden") <=> overlayOpen

\* C10 (amended): while the overlay is open on a non-empty list,
\* 0 <= idx < items.length and the image shown is items[idx].srcLarge (on an
\* empty list idx is 0 and the image is left as it was); scrolling is locked
\* iff the overlay is open; a key press while the overlay is closed changes
\* neither idx, the image nor the open state.
C10_NonEmptyList ==
    /\ [](/\ (overlayOpen /\ Len(items) > 0) => LightboxShowsItem
          /\ (overlayOpen /\ Len(items) = 0) => idx = 0
          /\ (bodyOverflow = "hidden") <=> overlayOpen)
    /\ [][ (ev' \in Keys /\ ~overlayOpen) => UNCHANGED lbSt ]_vars
    /\ [][ (ev' = "open" /\ Len(items') = 0) => (overlayOpen' /\ imgSrc' = imgSrc) ]_vars

\* a two-image list opened on its last image
C10_Witness ==
    /\ ev = "open"
    /\ overlayOpen
    /\ Len(items) = 2
    /\ idx = 1
    /\ imgSrc = items[2].srcLarge
    /\ bodyOverflow = "hidden"

=============================================================================
